---- MODULE Spec2Model ----
EXTENDS Integers, Sequences, FiniteSets, TLC

(***************************************************************************)
(* A model of cbatch.py: the ignore-pattern matcher, the document          *)
(* assembler and the three commands (init, update, tokens) acting on the   *)
(* files of the working directory.                                         *)
(*                                                                         *)
(* Text is a sequence of pieces.  A piece is either one whitespace         *)
(* character (" " or "\n") or a non-empty run of non-whitespace            *)
(* characters; paths and patterns are written one character per piece, so  *)
(* that glob matching works character by character.  Concatenation of     *)
(* text is concatenation of sequences; two adjacent non-whitespace pieces  *)
(* belong to the same word, exactly as adjacent characters do.             *)
(***************************************************************************)

\* Bounds of the model.
MaxCommands == 2
MaxPatterns == 2

SP == " "
NL == "\n"
SEP == "/"

CBATCH_CONFIG_FILE == <<"c","b","a","t","c","h",".","i","n","i">>
CBATCH_IGNORE_FILE == <<".","c","b","a","t","c","h","i","g","n","o","r","e">>
DEFAULT_OUTPUT_FILE == <<"c","o","d","e","b","a","t","c","h",".","m","d">>

DEFAULT_IGNORE_PATTERNS ==
    << <<"c","o","d","e","b","a","t","c","h",".","m","d">>,
       <<".","g","i","t","i","g","n","o","r","e">>,
       <<".","g","i","t","/">>,
       <<"*",".","l","o","c","k">>,
       <<".","e","n","v">>,
       <<".","e","n","v",".","*">>,
       CBATCH_CONFIG_FILE,
       CBATCH_IGNORE_FILE,
       <<"*",".","p","y","c">>,
       <<"_","_","p","y","c","a","c","h","e","_","_","/">>,
       <<"*",".","s","w","p">>,
       <<".","D","S","_","S","t","o","r","e">>,
       <<"n","o","d","e","_","m","o","d","u","l","e","s","/">>,
       <<"v","e","n","v","/">>,
       <<"e","n","v","/">>,
       <<"*",".","l","o","g">>,
       <<"d","a","t","a","/">>,
       <<"t","e","m","p","/">>,
       <<"t","m","p","/">>,
       <<"b","u","i","l","d","/">>,
       <<"d","i","s","t","/">>,
       <<"d","i","s","t","-","*","/">>,
       <<"*",".","p","e","m">>,
       <<"*",".","k","e","y">>,
       <<"*",".","c","s","r">>,
       <<"*",".","c","r","t">>,
       <<"*",".","c","e","r">>,
       <<"*",".","p","f","x">>,
       <<"*",".","p","1","2">>,
       <<"*",".","s","q","l","i","t","e">>,
       <<"*",".","d","b">>,
       <<"*",".","l","o","g">>,
       <<".","s","v","e","l","t","e","-","k","i","t","/">>,
       <<".","n","e","x","t","/">>,
       <<".","n","u","x","t","/">>,
       <<".","o","u","t","p","u","t","/">>,
       <<".","v","i","t","e","p","r","e","s","s","/">>,
       <<".","a","s","t","r","o","/">>,
       <<".","c","a","c","h","e","/">>,
       <<"o","u","t","/">>,
       <<".","a","n","g","u","l","a","r","/">>,
       <<".","r","e","m","i","x","/">>,
       <<".","p","a","r","c","e","l","-","c","a","c","h","e","/">>,
       <<".","w","e","b","p","a","c","k","/">>,
       <<".","r","o","l","l","u","p",".","c","a","c","h","e","/">>,
       <<".","t","u","r","b","o","/">>,
       <<".","y","a","r","n","/">>,
       <<"y","a","r","n","-","e","r","r","o","r",".","l","o","g">>,
       <<".","p","n","p","m","-","s","t","o","r","e","/">>,
       <<".","i","d","e","a","/">>,
       <<".","v","s","c","o","d","e","/">>,
       <<"*",".","s","u","b","l","i","m","e","-","*">>,
       <<".","s","e","t","t","i","n","g","s","/">>,
       <<".","p","r","o","j","e","c","t">>,
       <<".","c","l","a","s","s","p","a","t","h">>,
       <<"*",".","i","m","l">> >>

----------------------------------------------------------------------------
\* Sequence helpers.

Range(s) == { s[i] : i \in 1..Len(s) }

IsSpace(c) == c = SP \/ c = NL

\* str.split(sep): the segments between the occurrences of sep, empty ones kept.
RECURSIVE SplitOn(_, _, _)
SplitOn(s, sep, cur) ==
    IF s = <<>> THEN <<cur>>
    ELSE IF Head(s) = sep THEN <<cur>> \o SplitOn(Tail(s), sep, <<>>)
    ELSE SplitOn(Tail(s), sep, Append(cur, Head(s)))

\* str.split(): the maximal runs of non-whitespace, none of them empty.  The
\* list of words is given by where each word starts: the word starting at
\* position i runs up to WordEnd(s, i).
WordStarts(s) ==
    { i \in 1..Len(s) : ~IsSpace(s[i]) /\ (i = 1 \/ IsSpace(s[i - 1])) }

WordEnd(s, i) ==
    CHOOSE j \in i..Len(s) :
        /\ j = Len(s) \/ IsSpace(s[j + 1])
        /\ \A k \in i..j : ~IsSpace(s[k])

SplitWords(s) == [i \in WordStarts(s) |-> SubSeq(s, i, WordEnd(s, i))]

\* str.strip(): leading and trailing whitespace removed.
RECURSIVE LStrip(_)
LStrip(s) == IF s # <<>> /\ IsSpace(Head(s)) THEN LStrip(Tail(s)) ELSE s

RECURSIVE RStrip(_)
RStrip(s) ==
    IF s # <<>> /\ IsSpace(s[Len(s)]) THEN RStrip(SubSeq(s, 1, Len(s) - 1)) ELSE s

Strip(s) == RStrip(LStrip(s))

\* fnmatch.fnmatch(name, pat) on a POSIX host: "*" matches any run of
\* characters (the separator included), "?" exactly one, any other character
\* itself; the whole name must match.
RECURSIVE fnmatch(_, _)
fnmatch(name, pat) ==
    IF pat = <<>> THEN name = <<>>
    ELSE IF Head(pat) = "*"
         THEN fnmatch(name, Tail(pat)) \/ (name # <<>> /\ fnmatch(Tail(name), pat))
    ELSE IF Head(pat) = "?"
         THEN name # <<>> /\ fnmatch(Tail(name), Tail(pat))
    ELSE name # <<>> /\ Head(name) = Head(pat) /\ fnmatch(Tail(name), Tail(pat))

----------------------------------------------------------------------------
\* The pattern matcher.

\* A variant of PatternMatches in which a directory pattern is only tried
\* against the first segment of the path (a prefix test).
PatternMatches_prefix(file_path, pattern) ==
    IF pattern # <<>> /\ pattern[Len(pattern)] = SEP
    THEN fnmatch(SplitOn(file_path, SEP, <<>>)[1], SubSeq(pattern, 1, Len(pattern) - 1))
    ELSE fnmatch(file_path, pattern)

\* One iteration of the loop of is_file_ignored: does this pattern exclude
\* the path?
PatternMatches(file_path, pattern) ==
    IF pattern # <<>> /\ pattern[Len(pattern)] = SEP
    THEN LET dir_pattern == SubSeq(pattern, 1, Len(pattern) - 1)
             path_parts == SplitOn(file_path, SEP, <<>>)
         IN  \E k \in 1..Len(path_parts) : fnmatch(path_parts[k], dir_pattern)
    ELSE fnmatch(file_path, pattern)

\* The loop: the first matching pattern returns True, none returns False.
RECURSIVE is_file_ignored(_, _)
is_file_ignored(file_path, ignore_patterns) ==
    IF ignore_patterns = <<>> THEN FALSE
    ELSE IF PatternMatches(file_path, Head(ignore_patterns)) THEN TRUE
    ELSE is_file_ignored(file_path, Tail(ignore_patterns))

\* A variant of estimate_tokens that takes the length of the text.
estimate_tokens_length(text) == Len(text)

\* Number of words of a text, as text.split() counts them.
estimate_tokens(text) ==
    LET words == SplitWords(text)
    IN  Cardinality(DOMAIN words)

----------------------------------------------------------------------------
\* The files of the working directory.

A_TXT == <<"a",".","t","x","t">>
SECRET_PEM == <<"s","e","c","r","e","t",".","p","e","m">>
BUILD_X_TXT == <<"b","u","i","l","d","/","x",".","t","x","t">>
SRC_B_PY == <<"s","r","c","/","b",".","p","y">>
OUT_MD == <<"o","u","t",".","m","d">>

\* The user's own files, which no command writes, and what they hold.
UserFiles == {A_TXT, SECRET_PEM, BUILD_X_TXT, SRC_B_PY}

UserContent(p) ==
    CASE p = A_TXT -> <<"hello", SP, "world">>
      [] p = SECRET_PEM -> <<"KEY">>
      [] p = BUILD_X_TXT -> <<"obj">>
      [] p = SRC_B_PY -> <<"x", "=", "1", NL, "y", SP, "=", SP, "2">>

\* The output locations update is invoked with.
OutputFiles == {DEFAULT_OUTPUT_FILE, OUT_MD}

\* The order in which a directory lists its entries: the file system's
\* choice, one of these two.
Listing ==
    << A_TXT, CBATCH_CONFIG_FILE, OUT_MD, SECRET_PEM, CBATCH_IGNORE_FILE,
       DEFAULT_OUTPUT_FILE, BUILD_X_TXT, SRC_B_PY >>

RECURSIVE Reverse(_)
Reverse(s) == IF s = <<>> THEN <<>> ELSE Append(Reverse(Tail(s)), Head(s))

Listings == {Listing, Reverse(Listing)}

RECURSIVE Filter(_, _)
Filter(s, keep) ==
    IF s = <<>> THEN <<>>
    ELSE IF Head(s) \in keep THEN <<Head(s)>> \o Filter(Tail(s), keep)
    ELSE Filter(Tail(s), keep)

\* The config file: absent, not parseable, or sections of key/value lines.
\* estimate = "" stands for a Summary section without input_token_estimate.
NoConfig ==
    [state |-> "absent", hasGeneral |-> FALSE, general |-> <<>>,
     hasSummary |-> FALSE, estimate |-> ""]

MalformedConfig == [NoConfig EXCEPT !.state = "malformed"]

NoIgnoreFile == [exists |-> FALSE, lines |-> <<>>]

NoOutput == [exists |-> FALSE, text |-> <<>>]

K_CODEBASE_TYPE == <<"codebase", "_", "type">>
K_DEPLOYMENT_LOCATION == <<"deployment", "_", "location">>
K_GENERAL_DESCRIPTION == <<"general", "_", "description">>
K_EXECUTION_COMMAND == <<"execution", "_", "command">>

GeneralKeys ==
    << K_CODEBASE_TYPE, K_DEPLOYMENT_LOCATION, K_GENERAL_DESCRIPTION,
       K_EXECUTION_COMMAND >>

GeneralSection(values) ==
    [i \in 1..Len(GeneralKeys) |-> [key |-> GeneralKeys[i], value |-> values[i]]]

NoValues == << <<>>, <<>>, <<>>, <<>> >>

\* str.lower() of the answers drawn for the first prompt.
Lower(s) ==
    CASE s = "Y" -> "y"
      [] s = "YES" -> "yes"
      [] s = "N" -> "n"
      [] OTHER -> s

\* str.title() of one word of a key.
TitleWord(w) ==
    CASE w = "codebase" -> "Codebase"
      [] w = "type" -> "Type"
      [] w = "deployment" -> "Deployment"
      [] w = "location" -> "Location"
      [] w = "general" -> "General"
      [] w = "description" -> "Description"
      [] w = "execution" -> "Execution"
      [] w = "command" -> "Command"
      [] OTHER -> w

\* key.replace('_', ' ').title()
KeyLabel(key) ==
    [i \in 1..Len(key) |-> IF key[i] = "_" THEN SP ELSE TitleWord(key[i])]

\* configparser's rendering of the config file (ConfigParser.write).
RECURSIVE OptionLines(_)
OptionLines(opts) ==
    IF opts = <<>> THEN <<>>
    ELSE Head(opts).key \o <<SP, "=", SP>> \o Head(opts).value \o <<NL>>
         \o OptionLines(Tail(opts))

ConfigText(c) ==
    IF c.state = "malformed" THEN <<"garbage", NL>>
    ELSE (IF c.hasGeneral
          THEN <<"[General]", NL>> \o OptionLines(c.general) \o <<NL>>
          ELSE <<>>)
         \o (IF c.hasSummary
             THEN <<"[Summary]", NL>>
                  \o (IF c.estimate = "" THEN <<>>
                      ELSE <<"input_token_estimate", SP, "=", SP, c.estimate, NL>>)
                  \o <<NL>>
             ELSE <<>>)

RECURSIVE JoinLines(_)
JoinLines(lines) ==
    IF lines = <<>> THEN <<>> ELSE Head(lines) \o <<NL>> \o JoinLines(Tail(lines))

----------------------------------------------------------------------------
\* Console output: one record per printed message.

Msg(m, a) == [msg |-> m, arg |-> a]

\* What the record of a command holds before any command has run.
BlankRun ==
    [cmd |-> "none", out |-> <<>>, listing |-> <<>>, walk |-> <<>>,
     patterns |-> <<>>, general |-> <<>>, opened |-> <<>>, sections |-> <<>>,
     text |-> <<>>, assembled |-> FALSE, writable |-> FALSE, wrote |-> FALSE,
     persist |-> "none",
     cfgBefore |-> NoConfig, igBefore |-> NoIgnoreFile]

----------------------------------------------------------------------------
\* Config and ignore file access.

\* read_config: None for an absent file; a file that does not parse makes
\* config.read raise (state "malformed" stands for the raised error); a
\* parsed file has the whitespace around its values stripped.
read_config(c) ==
    IF c.state = "ok"
    THEN [c EXCEPT !.general =
            [i \in 1..Len(c.general) |->
                [key |-> c.general[i].key, value |-> Strip(c.general[i].value)]]]
    ELSE c

\* write_config: the file holds the sections of the config object.
write_config(cfg) == [cfg EXCEPT !.state = "ok"]

\* The ignore file as create_default_ignore_file writes it.
DefaultIgnoreLines ==
    << <<"#"," ","D","e","f","a","u","l","t"," ","i","g","n","o","r","e"," ",
         "p","a","t","t","e","r","n","s"," ","f","o","r"," ","c","b","a","t",
         "c","h">> >>
    \o DEFAULT_IGNORE_PATTERNS

\* A variant of create_default_ignore_file without the existence test.
create_default_ignore_file_overwrite(ig) ==
    [file |-> [exists |-> TRUE, lines |-> DefaultIgnoreLines],
     console |-> <<Msg("Created default ignore file", CBATCH_IGNORE_FILE)>>]

\* create_default_ignore_file: writes the defaults only when the file is absent.
create_default_ignore_file(ig) ==
    IF ~ig.exists
    THEN [file |-> [exists |-> TRUE, lines |-> DefaultIgnoreLines],
          console |-> <<Msg("Created default ignore file", CBATCH_IGNORE_FILE)>>]
    ELSE [file |-> ig,
          console |-> <<Msg("Ignore file already exists", CBATCH_IGNORE_FILE)>>]

\* init_config: a fresh config object with General and Summary, the General
\* fields from the prompts, written over the config file; then the ignore file.
init_config(ig, answer, fields) ==
    LET set_general_info == Lower(answer) \in {"y", "yes"}
        values == IF set_general_info THEN fields ELSE NoValues
        cfg == [state |-> "ok", hasGeneral |-> TRUE,
                general |-> GeneralSection(values),
                hasSummary |-> TRUE, estimate |-> ""]
        made == create_default_ignore_file(ig)
    IN  [config |-> write_config(cfg),
         ignoreFile |-> made.file,
         console |-> <<Msg("Initializing cbatch configuration...", <<>>)>>
                     \o (IF set_general_info THEN <<>>
                         ELSE <<Msg("Skipping general project information setup.", <<>>)>>)
                     \o <<Msg("Configuration saved to", CBATCH_CONFIG_FILE)>>
                     \o made.console]

\* read_gitignore_patterns: the stripped lines of the ignore file that are
\* neither empty nor comments, in file order; none when the file is absent.
RECURSIVE PatternLines(_)
PatternLines(lines) ==
    IF lines = <<>> THEN <<>>
    ELSE LET line == Strip(Head(lines))
         IN  (IF line # <<>> /\ Head(line) # "#" THEN <<line>> ELSE <<>>)
             \o PatternLines(Tail(lines))

\* A variant of read_gitignore_patterns that puts the built-in defaults in
\* front of the patterns of the file.
read_gitignore_patterns_with_defaults(ig) ==
    DEFAULT_IGNORE_PATTERNS \o (IF ig.exists THEN PatternLines(ig.lines) ELSE <<>>)

read_gitignore_patterns(ig) ==
    IF ig.exists THEN PatternLines(ig.lines) ELSE <<>>

\* tokens_command
tokens_command(c) ==
    LET cfg == read_config(c)
    IN  IF cfg.state = "malformed"
        THEN [console |-> <<>>, crashed |-> TRUE]
        ELSE IF cfg.state = "ok" /\ cfg.hasSummary /\ cfg.estimate # ""
        THEN [console |-> <<Msg("Estimated input tokens (from cbatch.ini)", <<cfg.estimate>>)>>,
              crashed |-> FALSE]
        ELSE [console |-> <<Msg("Token estimate not found. Run 'cbatch update' first", <<>>)>>,
              crashed |-> FALSE]

----------------------------------------------------------------------------
\* The document assembler.

CODEBASE_PATH == <<".">>

HasSep(p) == SEP \in Range(p)

\* os.walk(codebase_path) with os.path.join(root, file): the files of the top
\* directory first, then those of its subdirectories, each directory in the
\* order the file system lists it.
WalkOf(listing, existing) ==
    LET top == Filter(listing, {p \in existing : ~HasSep(p)})
        nested == Filter(listing, {p \in existing : HasSep(p)})
        order == top \o nested
    IN  [i \in 1..Len(order) |-> CODEBASE_PATH \o <<SEP>> \o order[i]]

\* os.path.relpath(file_path, codebase_path)
RelPath(file_path) == SubSeq(file_path, Len(CODEBASE_PATH) + 2, Len(file_path))

Preamble ==
    <<"#", SP, "Instructions", SP, "#", NL, NL>>
    \o << "This", SP, "file", SP, "represents", SP, "the", SP, "entire", SP,
          "codebase", SP, "I", SP, "am", SP, "working", SP, "on,", SP, "it",
          SP, "is", SP, "structured", SP, "in", SP, "markdown", SP, "syntax",
          SP, "for", SP, "readability", SP, "and", SP, "to", SP, "explore",
          SP, "codes", SP, "and", SP, "my", SP, "routes", SP, "relatively",
          SP, "easily." >>
    \o <<NL, NL>>

RECURSIVE GeneralInfoLines(_)
GeneralInfoLines(general_info) ==
    IF general_info = <<>> THEN <<>>
    ELSE <<"**">> \o KeyLabel(Head(general_info).key) \o <<"**:", SP>>
         \o Head(general_info).value \o <<NL>>
         \o GeneralInfoLines(Tail(general_info))

\* The document before the loop over the files.
DocumentHead(general_info) ==
    Preamble
    \o <<"##", SP, "General", SP, "Info", SP, "##", NL, NL>>
    \o GeneralInfoLines(general_info) \o <<NL>>
    \o <<"##", SP, "Files", SP, "##", NL, NL>>

\* The backquote cannot be written in a string here: these two pieces stand
\* for the backquote and for the fence of three backquotes.
BACKTICK == "<backquote>"

FENCE == "<backquote><backquote><backquote>"

SectionText(relative_path, content) ==
    <<"###", SP, BACKTICK>> \o relative_path \o <<BACKTICK, SP, "###", NL>>
    \o <<FENCE, NL>> \o content \o <<NL, FENCE, NL, NL>>

\* The ignore files the model draws, the pattern lists read from them, and
\* is_file_ignored evaluated once for each path and each of these lists.
UserIgnoreFile ==
    [exists |-> TRUE,
     lines |-> << <<"#", SP, "m", "i", "n", "e">>,
                  <<>>,
                  <<SP, "*", ".", "p", "e", "m", SP>>,
                  <<"b", "u", "i", "l", "d", "/">> >>]

SeededIgnoreFile == create_default_ignore_file(NoIgnoreFile).file

InitIgnoreFiles ==
    { NoIgnoreFile, [exists |-> TRUE, lines |-> <<>>], SeededIgnoreFile, UserIgnoreFile }

AllPaths == UserFiles \cup OutputFiles \cup {CBATCH_CONFIG_FILE, CBATCH_IGNORE_FILE}

IgnoredTable ==
    [q \in AllPaths \X {read_gitignore_patterns(ig) : ig \in InitIgnoreFiles} |->
        is_file_ignored(q[1], q[2])]

IsIgnored(relative_path, ignore_patterns) ==
    IF <<relative_path, ignore_patterns>> \in DOMAIN IgnoredTable
    THEN IgnoredTable[<<relative_path, ignore_patterns>>]
    ELSE is_file_ignored(relative_path, ignore_patterns)

\* A variant of VisitFile without the test against the ignore patterns.
VisitFile_unfiltered(acc, file_path, ignore_patterns, content, readable) ==
    LET relative_path == RelPath(file_path)
    IN  IF readable
        THEN [acc EXCEPT !.opened = Append(@, relative_path),
                         !.text = @ \o SectionText(relative_path, content),
                         !.sections = Append(@, [path |-> relative_path,
                                                 content |-> content])]
        ELSE [acc EXCEPT !.opened = Append(@, relative_path),
                         !.console = Append(@, Msg("Error reading file", file_path))]

\* A variant of VisitFile that writes the heading before it reads the file,
\* so that a failed read leaves a section without content.
VisitFile_heading_first(acc, file_path, ignore_patterns, content, readable) ==
    LET relative_path == RelPath(file_path)
    IN  IF IsIgnored(relative_path, ignore_patterns) THEN acc
        ELSE IF readable
        THEN [acc EXCEPT !.opened = Append(@, relative_path),
                         !.text = @ \o SectionText(relative_path, content),
                         !.sections = Append(@, [path |-> relative_path,
                                                 content |-> content])]
        ELSE [acc EXCEPT !.opened = Append(@, relative_path),
                         !.text = @ \o <<"###", SP, BACKTICK>> \o relative_path
                                    \o <<BACKTICK, SP, "###", NL>>,
                         !.console = Append(@, Msg("Error reading file", file_path))]

\* One iteration of the loop over the discovered files.  acc carries the
\* document so far, the paths opened so far, the sections appended so far
\* and the messages printed so far.
VisitFile(acc, file_path, ignore_patterns, content, readable) ==
    LET relative_path == RelPath(file_path)
    IN  IF IsIgnored(relative_path, ignore_patterns) THEN acc
        ELSE IF readable
        THEN [acc EXCEPT !.opened = Append(@, relative_path),
                         !.text = @ \o SectionText(relative_path, content),
                         !.sections = Append(@, [path |-> relative_path,
                                                 content |-> content])]
        ELSE [acc EXCEPT !.opened = Append(@, relative_path),
                         !.console = Append(@, Msg("Error reading file", file_path))]

RECURSIVE WalkFiles(_, _, _, _, _)
WalkFiles(walk, ignore_patterns, contentOf, unreadableSet, acc) ==
    IF walk = <<>> THEN acc
    ELSE WalkFiles(Tail(walk), ignore_patterns, contentOf, unreadableSet,
                   VisitFile(acc, Head(walk), ignore_patterns,
                             contentOf[RelPath(Head(walk))],
                             RelPath(Head(walk)) \notin unreadableSet))

\* The files under the working directory and what reading them returns.
Existing(c, ig, outs) ==
    UserFiles
    \cup (IF c.state # "absent" THEN {CBATCH_CONFIG_FILE} ELSE {})
    \cup (IF ig.exists THEN {CBATCH_IGNORE_FILE} ELSE {})
    \cup {p \in OutputFiles : outs[p].exists}

ContentOf(c, ig, outs) ==
    [p \in Existing(c, ig, outs) |->
        IF p \in UserFiles THEN UserContent(p)
        ELSE IF p = CBATCH_CONFIG_FILE THEN ConfigText(c)
        ELSE IF p = CBATCH_IGNORE_FILE THEN JoinLines(ig.lines)
        ELSE outs[p].text]

\* A variant of PersistEstimate that swallows the error of a missing Summary
\* section without printing anything.
PersistEstimate_silent(cfg, token_estimate, output_file) ==
    IF cfg.state = "absent"
    THEN [config |-> cfg, persist |-> "absent",
          console |-> <<Msg("Codebase structured output written to", output_file),
                        Msg("Estimated input tokens", <<ToString(token_estimate)>>),
                        Msg("Warning: Could not update cbatch.ini", <<>>)>>]
    ELSE IF ~cfg.hasSummary
    THEN [config |-> cfg, persist |-> "nosummary", console |-> <<>>]
    ELSE [config |-> write_config([cfg EXCEPT !.estimate = ToString(token_estimate)]),
          persist |-> "ok",
          console |-> <<Msg("Codebase structured output written to", output_file),
                        Msg("Estimated input tokens (updated in cbatch.ini)",
                            <<ToString(token_estimate)>>)>>]

\* The estimate-persistence step (after the document is written): cfg is
\* what read_config returns at that moment.
PersistEstimate(cfg, token_estimate, output_file) ==
    IF cfg.state = "absent"
    THEN [config |-> cfg, persist |-> "absent",
          console |-> <<Msg("Codebase structured output written to", output_file),
                        Msg("Estimated input tokens", <<ToString(token_estimate)>>),
                        Msg("Warning: Could not update cbatch.ini", <<>>)>>]
    ELSE IF ~cfg.hasSummary
    THEN [config |-> cfg, persist |-> "nosummary",
          console |-> <<Msg("An error occurred", <<"Summary">>)>>]
    ELSE [config |-> write_config([cfg EXCEPT !.estimate = ToString(token_estimate)]),
          persist |-> "ok",
          console |-> <<Msg("Codebase structured output written to", output_file),
                        Msg("Estimated input tokens (updated in cbatch.ini)",
                            <<ToString(token_estimate)>>)>>]

\* output_codebase_to_structured_file.  c, ig, outs and unreadableSet are the
\* files as the run finds them; listing is the order the file system lists
\* them in; writeOk says whether the output location can be opened for
\* writing; configGone says whether the config file has been removed by
\* someone else by the time the estimate is persisted.
output_codebase_to_structured_file(c, ig, outs, unreadableSet, output_file, general_info, ignore_patterns, listing, writeOk, configGone) ==
    LET walk == WalkOf(listing, Existing(c, ig, outs))
        acc == WalkFiles(walk, ignore_patterns, ContentOf(c, ig, outs), unreadableSet,
                         [text |-> DocumentHead(general_info), opened |-> <<>>,
                          sections |-> <<>>, console |-> <<>>])
        output_content == acc.text
        token_estimate == estimate_tokens(output_content)
        atPersist == IF configGone THEN NoConfig ELSE c
        persisted == PersistEstimate(read_config(atPersist), token_estimate, output_file)
        info == [BlankRun EXCEPT !.walk = walk, !.opened = acc.opened,
                                 !.sections = acc.sections, !.text = output_content,
                                 !.assembled = TRUE, !.writable = writeOk]
    IN  IF ~writeOk
        THEN [config |-> c, outputs |-> outs,
              console |-> acc.console \o <<Msg("An error occurred", output_file)>>,
              info |-> info]
        ELSE [config |-> IF persisted.persist = "nosummary" THEN atPersist
                         ELSE persisted.config,
              outputs |-> [outs EXCEPT ![output_file] =
                              [exists |-> TRUE, text |-> output_content]],
              console |-> acc.console \o persisted.console,
              info |-> [info EXCEPT !.wrote = TRUE, !.persist = persisted.persist]]

\* The update branch of main.
update_command(c, ig, outs, unreadableSet, output_file, listing, writeOk, configGone) ==
    LET config_ == read_config(c)
    IN  IF config_.state = "malformed"
        THEN [config |-> c, outputs |-> outs, console |-> <<>>, crashed |-> TRUE,
              info |-> BlankRun]
        ELSE IF config_.state = "absent" \/ ~config_.hasGeneral
        THEN [config |-> c, outputs |-> outs,
              console |-> <<Msg("Error: cbatch.ini not found or [General] section is missing", <<>>)>>,
              crashed |-> FALSE, info |-> BlankRun]
        ELSE LET general_info == config_.general
                 ignore_patterns == read_gitignore_patterns(ig)
                 r == output_codebase_to_structured_file(
                          c, ig, outs, unreadableSet, output_file, general_info,
                          ignore_patterns, listing, writeOk, configGone)
             IN  [config |-> r.config, outputs |-> r.outputs, console |-> r.console,
                  crashed |-> FALSE,
                  info |-> [r.info EXCEPT !.patterns = ignore_patterns,
                                          !.general = general_info]]

----------------------------------------------------------------------------
\* The state machine of the commands.

VARIABLES
    config,      \* the file cbatch.ini
    ignoreFile,  \* the file .cbatchignore
    outputs,     \* the output files, by path
    unreadable,  \* the user files that cannot be opened for reading
    console,     \* what the last command printed
    crashed,     \* the last command ended with an unhandled exception
    run,         \* record of the last command: inputs, files found, document
    prevCmd,     \* the command before the last one
    nCmds,       \* commands run so far
    mPath,       \* the path given to is_file_ignored
    mPats,       \* the patterns given to is_file_ignored
    mRes         \* <<>> before is_file_ignored is called, <<result>> after

vars == <<config, ignoreFile, outputs, unreadable, console, crashed, run, prevCmd,
          nCmds, mPath, mPats, mRes>>

fsVars == <<config, ignoreFile, outputs, unreadable, console, crashed, run, prevCmd, nCmds>>

matchVars == <<mPath, mPats, mRes>>

\* A config file as init leaves it, one that holds the estimate of an earlier
\* update, one without Summary and one without General.
FreshConfig == init_config(NoIgnoreFile, "n", NoValues).config

InitConfigs ==
    { NoConfig, MalformedConfig, FreshConfig,
      [FreshConfig EXCEPT !.estimate = "57"],
      [FreshConfig EXCEPT !.hasSummary = FALSE],
      [FreshConfig EXCEPT !.hasGeneral = FALSE, !.general = <<>>] }

\* Answers to the prompts of init.
PromptAnswers == {"Y", "n"}

FieldAnswers ==
    { << <<"FastAPI", SP, "backend">>, <<>>, <<"AI", SP, "bot", SP>>, <<"make">> >> }

Init ==
    /\ config \in InitConfigs
    /\ ignoreFile \in InitIgnoreFiles
    /\ outputs = [p \in OutputFiles |-> NoOutput]
    /\ unreadable \in {{}, {A_TXT}}
    /\ console = <<>>
    /\ crashed = FALSE
    /\ run = BlankRun
    /\ prevCmd = "none"
    /\ nCmds = 0
    /\ mPath = <<>>
    /\ mPats = <<>>
    /\ mRes = <<>>

\* cbatch init
InitCmd ==
    /\ nCmds < MaxCommands
    /\ \E answer \in PromptAnswers, fields \in FieldAnswers :
         \E r \in {init_config(ignoreFile, answer, fields)} :
             /\ config' = r.config
             /\ ignoreFile' = r.ignoreFile
             /\ console' = r.console
             /\ run' = [BlankRun EXCEPT !.cmd = "init", !.cfgBefore = config,
                                        !.igBefore = ignoreFile]
    /\ crashed' = FALSE
    /\ prevCmd' = run.cmd
    /\ nCmds' = nCmds + 1
    /\ UNCHANGED <<outputs, unreadable, matchVars>>

\* cbatch update [. [output_file]]
UpdateCmd ==
    /\ nCmds < MaxCommands
    /\ \E output_file \in OutputFiles, listing \in Listings,
          writeOk \in BOOLEAN, configGone \in BOOLEAN :
         /\ configGone => writeOk
         /\ \E r \in {update_command(config, ignoreFile, outputs, unreadable,
                                      output_file, listing, writeOk, configGone)} :
                /\ config' = r.config
                /\ outputs' = r.outputs
                /\ console' = r.console
                /\ crashed' = r.crashed
                /\ run' = [r.info EXCEPT !.cmd = "update", !.out = output_file,
                                         !.listing = listing, !.cfgBefore = config,
                                         !.igBefore = ignoreFile]
    /\ prevCmd' = run.cmd
    /\ nCmds' = nCmds + 1
    /\ UNCHANGED <<ignoreFile, unreadable, matchVars>>

\* cbatch tokens
TokensCmd ==
    /\ nCmds < MaxCommands
    /\ \E r \in {tokens_command(config)} :
           /\ console' = r.console
           /\ crashed' = r.crashed
    /\ run' = [BlankRun EXCEPT !.cmd = "tokens", !.cfgBefore = config,
                               !.igBefore = ignoreFile]
    /\ prevCmd' = run.cmd
    /\ nCmds' = nCmds + 1
    /\ UNCHANGED <<config, ignoreFile, outputs, unreadable, matchVars>>

Next == InitCmd \/ UpdateCmd \/ TokensCmd

Spec == Init /\ [][Next]_vars

----------------------------------------------------------------------------
\* The matcher on its own: is_file_ignored applied to drawn inputs.

MatchPaths ==
    { <<"b","u","i","l","d","/","x",".","t","x","t">>,
      <<"s","r","c","/","b","u","i","l","d","/","x",".","t","x","t">>,
      <<"a","/","b","/","b","u","i","l","d","/">>,
      <<"b","u","i","l","d","e","r","/","x",".","t","x","t">>,
      <<"a","p","p",".","l","o","g">>,
      <<"l","o","g","s","/","a","p","p",".","l","o","g">>,
      <<"a","p","p",".","l","o","g","x">> }

MatchPatterns ==
    { <<"b","u","i","l","d","/">>,
      <<"*",".","l","o","g">>,
      <<"b","*","d","/">>,
      <<"?","p","p",".","l","o","g">>,
      <<"l","o","g","s">>,
      <<"s","r","c","/","*">> }

RECURSIVE SeqsUpTo(_, _)
SeqsUpTo(S, n) ==
    IF n = 0 THEN {<<>>}
    ELSE LET shorter == SeqsUpTo(S, n - 1)
         IN  shorter \cup {Append(s, x) : s \in shorter, x \in S}

MatchInit ==
    /\ config = NoConfig
    /\ ignoreFile = NoIgnoreFile
    /\ outputs = [p \in OutputFiles |-> NoOutput]
    /\ unreadable = {}
    /\ console = <<>>
    /\ crashed = FALSE
    /\ run = BlankRun
    /\ prevCmd = "none"
    /\ nCmds = 0
    /\ mPath \in MatchPaths
    /\ mPats \in SeqsUpTo(MatchPatterns, MaxPatterns)
    /\ mRes = <<>>

\* The call: mRes holds the returned value once it has returned.
MatchCall ==
    /\ mRes = <<>>
    /\ mRes' = <<is_file_ignored(mPath, mPats)>>
    /\ UNCHANGED <<mPath, mPats, fsVars>>

MatchNext == MatchCall

MatchSpec == MatchInit /\ [][MatchNext]_vars

----------------------------------------------------------------------------
\* Properties.

\* The last command was an update that reached the assembler.
Assembled == run.cmd = "update" /\ run.assembled

SectionPaths == { run.sections[i].path : i \in 1..Len(run.sections) }

WalkedPaths == [i \in 1..Len(run.walk) |-> RelPath(run.walk[i])]

\* A pattern list excludes a path when one of its patterns matches it:
\* stated on the set of patterns, without the loop.
ExcludedBy(path, patterns) ==
    \E i \in 1..Len(patterns) : PatternMatches(path, patterns[i])

ExcludedTable ==
    [q \in AllPaths \X {PatternLines(ig.lines) : ig \in InitIgnoreFiles} |->
        ExcludedBy(q[1], q[2])]

Excluded(path, patterns) ==
    IF <<path, patterns>> \in DOMAIN ExcludedTable
    THEN ExcludedTable[<<path, patterns>>]
    ELSE ExcludedBy(path, patterns)

\* C1: the document of a refresh has no section for the tool's own output
\* file, its config file or its ignore file, whatever the ignore file holds.
C1_NoOwnArtifacts ==
    Assembled =>
        SectionPaths \cap {run.out, CBATCH_CONFIG_FILE, CBATCH_IGNORE_FILE} = {}

\* The lines of an ignore file that are patterns, stated without the loop.
IsPatternLine(line) == line # <<>> /\ line[1] # "#"

UserPatterns(ig) ==
    IF ig.exists
    THEN SelectSeq([i \in 1..Len(ig.lines) |-> Strip(ig.lines[i])], IsPatternLine)
    ELSE <<>>

DefaultExcluded(path) ==
    \E i \in 1..Len(DEFAULT_IGNORE_PATTERNS) :
        PatternMatches(path, DEFAULT_IGNORE_PATTERNS[i])

DefaultExcludedPaths == { p \in AllPaths : DefaultExcluded(p) }

InSections(p) == p \in SectionPaths

\* C3: the sections are distinct discovered files the run's patterns do not
\* exclude, in the order of the walk, and no excluded file is opened.
C3_SectionsAreSurvivors ==
    Assembled =>
        /\ \A i, j \in 1..Len(run.sections) :
               run.sections[i].path = run.sections[j].path => i = j
        /\ \A i \in 1..Len(run.sections) :
               /\ run.sections[i].path \in Range(WalkedPaths)
               /\ ~Excluded(run.sections[i].path, run.patterns)
        /\ [i \in 1..Len(run.sections) |-> run.sections[i].path]
               = SelectSeq(WalkedPaths, InSections)
        /\ \A i \in 1..Len(run.opened) : ~Excluded(run.opened[i], run.patterns)

C3_Witness ==
    /\ Assembled
    /\ Len(run.sections) >= 2
    /\ \E i \in 1..Len(WalkedPaths) : Excluded(WalkedPaths[i], run.patterns)
    /\ run.listing = Reverse(Listing)

\* The text of the sections, one after the other.
RECURSIVE SectionsText(_)
SectionsText(sections) ==
    IF sections = <<>> THEN <<>>
    ELSE SectionText(Head(sections).path, Head(sections).content)
         \o SectionsText(Tail(sections))

\* The discovered files the run's patterns do not exclude: those that can be
\* read, and those whose read fails.
Survives(p) == ~Excluded(p, run.patterns)

SurvivesReadable(p) == Survives(p) /\ p \notin unreadable

FailedPaths == { p \in Range(WalkedPaths) : Survives(p) /\ p \in unreadable }

\* C4: a failed read does not stop the refresh.  The document is the head
\* followed by one complete section for every discovered, non-excluded file
\* that could be read, in order, and nothing for the file that failed; the failed path is
\* printed in an error message; the command returns normally and, the output
\* location accepting the write, the output file holds the document.
C4_ReadFailureIsSkipped ==
    (Assembled /\ FailedPaths # {}) =>
        /\ ~crashed
        /\ run.writable => /\ run.wrote
                           /\ outputs[run.out] = [exists |-> TRUE, text |-> run.text]
        /\ [i \in 1..Len(run.sections) |-> run.sections[i].path]
               = SelectSeq(WalkedPaths, SurvivesReadable)
        /\ \A i \in 1..Len(run.sections) :
               run.sections[i].path \in UserFiles =>
                   run.sections[i].content = UserContent(run.sections[i].path)
        /\ run.text = DocumentHead(run.general) \o SectionsText(run.sections)
        /\ \A p \in FailedPaths :
               /\ p \notin SectionPaths
               /\ \E i \in 1..Len(console) :
                      /\ console[i].msg = "Error reading file"
                      /\ console[i].arg = CODEBASE_PATH \o <<SEP>> \o p

C4_Witness ==
    /\ Assembled /\ run.wrote
    /\ A_TXT \in FailedPaths
    /\ SRC_B_PY \in SectionPaths
    /\ Len(run.sections) >= 2

\* The words of a text, counted where they end: a non-whitespace piece
\* followed by whitespace or by the end of the text.
WordCount(text) ==
    Cardinality({ i \in 1..Len(text) :
                    /\ text[i] \notin {SP, NL}
                    /\ (i = Len(text) \/ text[i + 1] \in {SP, NL}) })

\* C5: after a refresh that wrote the output file and found a config with a
\* Summary section, the stored estimate is the number of words of the text
\* the output file holds.
C5_EstimateIsWordCountOfOutput ==
    (run.cmd = "update" /\ run.wrote /\ run.persist = "ok") =>
        /\ config.state = "ok" /\ config.hasSummary
        /\ config.estimate = ToString(WordCount(outputs[run.out].text))

C5_Witness ==
    /\ run.cmd = "update" /\ run.wrote /\ run.persist = "ok"
    /\ Len(run.sections) >= 2
    /\ config.estimate # "" /\ config.estimate # "57"

\* C6: two refreshes in succession with the same output location, both
\* writing the output and nobody else touching the files in between, produce
\* the same document up to the order of the sections.
C6_RefreshTwiceSameDocument ==
    [][(/\ run.cmd = "update" /\ run.wrote /\ run.persist # "absent"
        /\ nCmds' = nCmds + 1
        /\ run'.cmd = "update" /\ run'.wrote /\ run'.persist # "absent"
        /\ run'.out = run.out)
       => /\ Range(run'.sections) = Range(run.sections)
          /\ DocumentHead(run'.general) = DocumentHead(run.general)]_vars

\* C8: when the config file is gone or has no Summary section at the moment
\* the estimate is to be persisted, the output file already holds the whole
\* document, the command returns normally, nothing is stored and the console
\* tells the operator.
C8_PersistFailureIsNotFatal ==
    (run.cmd = "update" /\ run.persist \in {"absent", "nosummary"}) =>
        /\ ~crashed
        /\ outputs[run.out] = [exists |-> TRUE, text |-> run.text]
        /\ run.text = DocumentHead(run.general) \o SectionsText(run.sections)
        /\ config.estimate = (IF run.persist = "absent" THEN "" ELSE run.cfgBefore.estimate)
        /\ console # <<>>
        /\ console[Len(console)].msg
               \in {"Warning: Could not update cbatch.ini", "An error occurred"}

C8_Witness ==
    /\ run.cmd = "update" /\ run.persist = "nosummary"
    /\ Len(run.sections) >= 1

\* The config the command found lacks something it requires.
ConfigUnusable(c) == c.state # "ok" \/ ~c.hasGeneral \/ ~c.hasSummary

\* C9: update and tokens, run on an absent, unparseable or incomplete config,
\* print a message and return; they never end with an unhandled error.
C9_BadConfigNeverCrashes ==
    (run.cmd \in {"update", "tokens"} /\ ConfigUnusable(run.cfgBefore)) =>
        /\ ~crashed
        /\ console # <<>>

SegmentBounds(path) ==
    { b \in (1..(Len(path) + 1)) \X (0..Len(path)) :
        /\ b[2] >= b[1] - 1
        /\ b[1] = 1 \/ path[b[1] - 1] = SEP
        /\ b[2] = Len(path) \/ path[b[2] + 1] = SEP
        /\ \A k \in b[1]..b[2] : path[k] # SEP }

Segments(path) == { SubSeq(path, b[1], b[2]) : b \in SegmentBounds(path) }

MatchesOne(path, pattern) ==
    IF pattern[Len(pattern)] = SEP
    THEN \E seg \in Segments(path) :
             fnmatch(seg, SubSeq(pattern, 1, Len(pattern) - 1))
    ELSE fnmatch(path, pattern)

\* C7: is_file_ignored returns true exactly when some pattern matches, in any
\* order of the patterns: a directory pattern when one segment of the path
\* matches it without its separator, any other pattern when the whole path
\* matches it.  "build/" excludes build/x.txt, src/build/x.txt and a/b/build/
\* but not builder/x.txt; "*.log" excludes app.log and logs/app.log but not
\* app.logx.
C7_IgnoredIffSomePatternMatches ==
    mRes # <<>> =>
        /\ mRes[1] = (\E i \in 1..Len(mPats) : MatchesOne(mPath, mPats[i]))
        /\ mRes[1] = is_file_ignored(mPath, Reverse(mPats))
        /\ mPats = << <<"b","u","i","l","d","/">> >> =>
               mRes[1] = (mPath \in
                   { <<"b","u","i","l","d","/","x",".","t","x","t">>,
                     <<"s","r","c","/","b","u","i","l","d","/","x",".","t","x","t">>,
                     <<"a","/","b","/","b","u","i","l","d","/">> })
        /\ mPats = << <<"*",".","l","o","g">> >> =>
               mRes[1] = (mPath \in
                   { <<"a","p","p",".","l","o","g">>,
                     <<"l","o","g","s","/","a","p","p",".","l","o","g">> })

C7_Witness ==
    /\ mRes = <<TRUE>>
    /\ mPats = << <<"*",".","l","o","g">>, <<"b","u","i","l","d","/">> >>
    /\ mPath = <<"s","r","c","/","b","u","i","l","d","/","x",".","t","x","t">>

====
